---- MODULE Spec2Model ----
(***************************************************************************)
(* EOB extraction pipeline: process_pdf (processor.py), the record merger  *)
(* combine_records (helper.py) and the event envelope built by             *)
(* run_pipeline_from_s3_and_return_result (app.py).                        *)
(*                                                                         *)
(* Strings that the code only compares or trims are sequences of           *)
(* characters; a serialized JSON fragment is represented by what           *)
(* json.loads makes of it (see JsonLoads).                                 *)
(***************************************************************************)
EXTENDS Integers, Sequences, FiniteSets, TLC

\* ------------------------------------------------------------------------
\* Bounds of the model
\* ------------------------------------------------------------------------
MaxPages == 3
MaxWords == 1
MaxBlobs == 2
MaxRecs == 3

\* ------------------------------------------------------------------------
\* Program constants
\* ------------------------------------------------------------------------
TOKEN_OVERHEAD == 4000

\* ------------------------------------------------------------------------
\* Values
\* ------------------------------------------------------------------------
\* A "Procs" entry of a record: the key is absent, null, or a list.
ProcsAbsent == [kind |-> "absent", items |-> <<>>]
ProcsNull == [kind |-> "null", items |-> <<>>]
ProcsList(items) == [kind |-> "list", items |-> items]

\* A claim record as json.loads delivers it.  hasClaim = FALSE stands for a
\* record in which Claim, ClaimNum or value is missing or null; fld stands
\* for the scalar fields of the record.
Rec(hasClaim, claimNum, procs, fld) ==
    [hasClaim |-> hasClaim, claimNum |-> claimNum, procs |-> procs, fld |-> fld]

\* A string handed around as a page output or fragment.
\*   "none"      Python None (no string at all)
\*   "empty"     the empty string
\*   "malformed" text json.loads rejects with JSONDecodeError
\*   "nonobject" valid JSON that is no object (null, a list, a number)
\*   "object"    a JSON object; hasRecords tells whether it has a Records key
NoneVal == [kind |-> "none", hasRecords |-> FALSE, records |-> <<>>]
EmptyStr == [kind |-> "empty", hasRecords |-> FALSE, records |-> <<>>]
Malformed == [kind |-> "malformed", hasRecords |-> FALSE, records |-> <<>>]
NonObject == [kind |-> "nonobject", hasRecords |-> FALSE, records |-> <<>>]
ObjNoRecords == [kind |-> "object", hasRecords |-> FALSE, records |-> <<>>]
Obj(records) == [kind |-> "object", hasRecords |-> TRUE, records |-> records]

\* Outcome of a call that raised instead of returning a string.
Raised == [kind |-> "fault", hasRecords |-> FALSE, records |-> <<>>]

\* ------------------------------------------------------------------------
\* helper.py: combine_records
\* ------------------------------------------------------------------------
IsSpace(c) == c = " "

RECURSIVE LStrip(_)
LStrip(s) ==
    IF s = <<>> THEN <<>>
    ELSE IF IsSpace(Head(s)) THEN LStrip(Tail(s)) ELSE s

RECURSIVE RStrip(_)
RStrip(s) ==
    IF s = <<>> THEN <<>>
    ELSE IF IsSpace(s[Len(s)]) THEN RStrip(SubSeq(s, 1, Len(s) - 1)) ELSE s

\* str.strip()
Strip(s) == RStrip(LStrip(s))

\* Variant: the identifier is taken without .strip().
ClaimId_NoStrip(record) == IF record.hasClaim THEN record.claimNum ELSE <<>>

\* claim_id = (claim_meta.get("value") or "").strip()
ClaimId(record) == IF record.hasClaim THEN Strip(record.claimNum) ELSE <<>>

\* record.get("Procs") or []
ProcsOrEmpty(record) ==
    IF record.procs.kind = "list" THEN record.procs.items ELSE <<>>

\* `claim_id in combined`; combined is a dict kept as the sequence of its
\* (key, value) entries in insertion order.
InCombined(combined, claim_id) ==
    \E i \in DOMAIN combined : combined[i].key = claim_id

\* Variant: the later record takes the place of the existing one, with the
\* Procs of both.
ExtendProcs_LaterWins(existing, record) ==
    [record EXCEPT !.procs = ProcsList(ProcsOrEmpty(existing) \o ProcsOrEmpty(record))]

\* Variant: the later record's Procs replace the existing ones.
ExtendProcs_Replace(existing, record) ==
    [existing EXCEPT !.procs = ProcsList(ProcsOrEmpty(record))]

\* existing_procs.extend(new_procs); existing["Procs"] = existing_procs
ExtendProcs(existing, record) ==
    [existing EXCEPT !.procs = ProcsList(ProcsOrEmpty(existing) \o ProcsOrEmpty(record))]

\* Variant: a record without identifier is kept under the empty key.
MergeRecord_KeepBlank(combined, record) ==
    LET claim_id == ClaimId(record) IN
    IF ~InCombined(combined, claim_id)
    THEN Append(combined, [key |-> claim_id, rec |-> record])
    ELSE [i \in DOMAIN combined |->
            IF combined[i].key = claim_id
            THEN [combined[i] EXCEPT !.rec = ExtendProcs(combined[i].rec, record)]
            ELSE combined[i]]

\* One iteration of `for record in payload.get("Records", [])`.
MergeRecord(combined, record) ==
    LET claim_id == ClaimId(record) IN
    IF claim_id = <<>> THEN combined
    ELSE IF ~InCombined(combined, claim_id)
         THEN Append(combined, [key |-> claim_id, rec |-> record])
         ELSE [i \in DOMAIN combined |->
                 IF combined[i].key = claim_id
                 THEN [combined[i] EXCEPT !.rec = ExtendProcs(combined[i].rec, record)]
                 ELSE combined[i]]

RECURSIVE MergeRecords(_, _)
MergeRecords(combined, records) ==
    IF records = <<>> THEN combined
    ELSE MergeRecords(MergeRecord(combined, Head(records)), Tail(records))

\* Variant: JSONDecodeError is not caught, the text reaches payload.get.
JsonLoads_Uncaught(blob) ==
    [ok |-> TRUE,
     isObject |-> blob.kind = "object",
     records |-> IF blob.kind = "object" /\ blob.hasRecords THEN blob.records ELSE <<>>]

\* json.loads(blob): ok = FALSE is JSONDecodeError.
JsonLoads(blob) ==
    [ok |-> blob.kind \in {"nonobject", "object"},
     isObject |-> blob.kind = "object",
     records |-> IF blob.kind = "object" /\ blob.hasRecords THEN blob.records ELSE <<>>]

\* The loop `for blob in json_strings`.  fault = TRUE: an exception other
\* than JSONDecodeError left the function (payload.get on a value that is
\* no dict).
RECURSIVE CombineLoop(_, _)
CombineLoop(combined, json_strings) ==
    IF json_strings = <<>> THEN [fault |-> FALSE, combined |-> combined]
    ELSE LET blob == Head(json_strings)
             payload == JsonLoads(blob)
         IN  IF blob.kind \in {"none", "empty"}
             THEN CombineLoop(combined, Tail(json_strings))
             ELSE IF ~payload.ok
             THEN CombineLoop(combined, Tail(json_strings))
             ELSE IF ~payload.isObject
             THEN [fault |-> TRUE, combined |-> combined]
             ELSE CombineLoop(MergeRecords(combined, payload.records),
                              Tail(json_strings))

\* return {"Records": list(combined.values())}
CombineRecords(json_strings) ==
    LET r == CombineLoop(<<>>, json_strings) IN
    [fault |-> r.fault,
     Records |-> IF r.fault THEN <<>>
                 ELSE [i \in DOMAIN r.combined |-> r.combined[i].rec]]

\* ------------------------------------------------------------------------
\* helper.py: collaborators of process_pdf
\* ------------------------------------------------------------------------
\* Results of ocr_processing: None, or an analysis result whose pages are
\* lists of words.
OcrNone == [isNone |-> TRUE, pages |-> <<>>]
OcrPages(pages) == [isNone |-> FALSE, pages |-> pages]

WordLists == UNION {[1..n -> {"w"}] : n \in 0..MaxWords}
OcrResults ==
    {OcrNone} \cup {OcrPages(p) : p \in UNION {[1..n -> WordLists] : n \in 0..MaxPages}}

\* get_text_and_tables_from_url: [] for a None result; otherwise one payload
\* per page number (page 1 when there is none), each starting with its
\* PAGE_NUMBER segment and therefore never empty.
GetTextAndTablesFromUrl(result) ==
    IF result.isNone THEN <<>>
    ELSE IF result.pages = <<>> THEN << <<"PAGE_NUMBER">> >>
    ELSE [i \in DOMAIN result.pages |-> <<"PAGE_NUMBER">> \o result.pages[i]]

\* count_tokens: len(encoding.encode(text)); one token per segment here.
CountTokens(text) == Len(text)

\* What llm_processing can return: json.dumps of the tool-call arguments, or
\* the message content (any text, the empty string, or None).
RecA1 == Rec(TRUE, <<"A">>, ProcsList(<<"p1">>), 1)
RecA2 == Rec(TRUE, <<" ", "A">>, ProcsList(<<"p2">>), 2)
RecB == Rec(TRUE, <<"B">>, ProcsNull, 1)
RecBlank == Rec(TRUE, <<" ">>, ProcsList(<<"p3">>), 1)
LlmStrings ==
    {EmptyStr, Malformed, NonObject,
     Obj(<<RecA1>>), Obj(<<RecBlank, RecA2>>), Obj(<<RecB>>)}

\* ------------------------------------------------------------------------
\* State
\* ------------------------------------------------------------------------
VARIABLES
    pc,             \* position of the request in app.py / processor.py
    uploaded_path,  \* argument of run_pipeline_from_s3_and_return_result
    payloads,       \* process_pdf: page payloads
    page,           \* process_pdf: number of the next page of the loop
    token_count,    \* process_pdf: running token total
    jsons,          \* process_pdf: fragment list
    context_json,   \* process_pdf: carried context
    records,        \* process_pdf: the result object
    llm_calls,      \* log of the llm_processing calls made so far
    json_strings,   \* combine_records: argument of the call
    combined_json,  \* combine_records: outcome of the call
    fault,          \* text of the exception travelling up, "" if none
    response        \* app.py: the response being built

vars == <<pc, uploaded_path, payloads, page, token_count, jsons, context_json,
          records, llm_calls, json_strings, combined_json, fault, response>>

pdfVars == <<payloads, page, token_count, jsons, context_json, records, llm_calls>>
mergeVars == <<json_strings, combined_json>>

NoPayload == [Records |-> <<>>, TotalTokens |-> 0, WarningCodes |-> <<>>, Error |-> ""]
NotCalled == [called |-> FALSE, fault |-> FALSE, Records |-> <<>>]
CallOutcome(r) == [called |-> TRUE, fault |-> r.fault, Records |-> r.Records]

NoResponse ==
    [processingStatus |-> "", message |-> "", hasParsed |-> FALSE, eobParsed |-> NoPayload]

UploadedPaths == {"", "eobs/a.pdf"}

Init ==
    /\ pc = "request"
    /\ uploaded_path = ""
    /\ payloads = <<>>
    /\ page = 0
    /\ token_count = 0
    /\ jsons = <<>>
    /\ context_json = EmptyStr
    /\ records = NoPayload
    /\ llm_calls = <<>>
    /\ json_strings = <<>>
    /\ combined_json = NotCalled
    /\ fault = ""
    /\ response = NoResponse

\* ------------------------------------------------------------------------
\* app.py: run_pipeline_from_s3_and_return_result, process_pdf_from_s3
\* ------------------------------------------------------------------------
\* run_pipeline_from_s3_and_return_result is entered: the response starts
\* as FAILED with an empty message.
RunPipeline ==
    /\ pc = "request"
    /\ \E p \in UploadedPaths : uploaded_path' = p
    /\ response' = [NoResponse EXCEPT !.processingStatus = "FAILED"]
    /\ pc' = "s3"
    /\ UNCHANGED <<pdfVars, mergeVars, fault>>

\* re.match(r"s3://([^/]+)/(.+)", f"s3://{S3_BUCKET}/{uploaded_path}")
InMatch(path) == path # ""

\* process_pdf_from_s3: raise ValueError("Invalid S3 input path"), turned
\* into RuntimeError by the except clause.
S3InvalidPath ==
    /\ pc = "s3"
    /\ ~InMatch(uploaded_path)
    /\ fault' = "Error processing PDF from S3: Invalid S3 input path"
    /\ pc' = "s3_raised"
    /\ UNCHANGED <<uploaded_path, pdfVars, mergeVars, response>>

\* s3.download_file raises.
S3DownloadFault ==
    /\ pc = "s3"
    /\ InMatch(uploaded_path)
    /\ fault' = "Error processing PDF from S3: download failed"
    /\ pc' = "s3_raised"
    /\ UNCHANGED <<uploaded_path, pdfVars, mergeVars, response>>

\* s3.download_file succeeds; process_pdf is called.
S3DownloadOk ==
    /\ pc = "s3"
    /\ InMatch(uploaded_path)
    /\ pc' = "pdf_init"
    /\ UNCHANGED <<uploaded_path, pdfVars, mergeVars, fault, response>>

\* ------------------------------------------------------------------------
\* processor.py: process_pdf
\* ------------------------------------------------------------------------
\* Lines 32-40: the locals and the result object.
ProcessPdfInit ==
    /\ pc = "pdf_init"
    /\ token_count' = 0
    /\ jsons' = <<>>
    /\ context_json' = EmptyStr
    /\ records' = NoPayload
    /\ pc' = "presign"
    /\ UNCHANGED <<uploaded_path, payloads, page, llm_calls, mergeVars, fault, response>>

\* helper.presign_s3url raises.
PresignFault ==
    /\ pc = "presign"
    /\ records' = [records EXCEPT !.Error = "Failed to presign S3 URL"]
    /\ pc' = "pdf_returned"
    /\ UNCHANGED <<uploaded_path, payloads, page, token_count, jsons, context_json,
                   llm_calls, mergeVars, fault, response>>

PresignOk ==
    /\ pc = "presign"
    /\ pc' = "fetch"
    /\ UNCHANGED <<uploaded_path, pdfVars, mergeVars, fault, response>>

\* helper.get_text_and_tables_from_url raises.
FetchFault ==
    /\ pc = "fetch"
    /\ records' = [records EXCEPT !.Error = "Failed to get text and tables from URL"]
    /\ pc' = "pdf_returned"
    /\ UNCHANGED <<uploaded_path, payloads, page, token_count, jsons, context_json,
                   llm_calls, mergeVars, fault, response>>

\* helper.get_text_and_tables_from_url returns; it never returns None, so
\* the `payloads is None` test lets every outcome through to the loop.
FetchOk ==
    /\ pc = "fetch"
    /\ \E result \in OcrResults : payloads' = GetTextAndTablesFromUrl(result)
    /\ page' = 1
    /\ pc' = "loop"
    /\ UNCHANGED <<uploaded_path, token_count, jsons, context_json, records,
                   llm_calls, mergeVars, fault, response>>

\* The entry the log gets for one llm_processing call.
LlmCall(outcome) == [page |-> page, context |-> context_json, outcome |-> outcome]

\* helper.count_tokens raises; the call stands outside every try block.
PageTokenFault ==
    /\ pc = "loop"
    /\ page <= Len(payloads)
    /\ fault' = "count_tokens failed"
    /\ pc' = "pdf_raised"
    /\ UNCHANGED <<uploaded_path, pdfVars, mergeVars, response>>

\* Variant: the fault of llm_processing returns what was gathered so far.
PageLlmFault_Partial ==
    /\ pc = "loop"
    /\ page <= Len(payloads)
    /\ token_count' = token_count + CountTokens(payloads[page])
    /\ llm_calls' = Append(llm_calls, LlmCall(Raised))
    /\ records' = [records EXCEPT !.Error = "Failed to process page via llm_processing",
                                  !.TotalTokens = token_count + CountTokens(payloads[page])]
    /\ pc' = "pdf_returned"
    /\ UNCHANGED <<uploaded_path, payloads, page, jsons, context_json, mergeVars,
                   fault, response>>

\* Variant: the fault of llm_processing is logged and the loop goes on.
PageLlmFault_Continue ==
    /\ pc = "loop"
    /\ page <= Len(payloads)
    /\ token_count' = token_count + CountTokens(payloads[page])
    /\ llm_calls' = Append(llm_calls, LlmCall(Raised))
    /\ page' = page + 1
    /\ UNCHANGED <<pc, uploaded_path, payloads, jsons, context_json, records,
                   mergeVars, fault, response>>

\* helper.llm_processing raises.
PageLlmFault ==
    /\ pc = "loop"
    /\ page <= Len(payloads)
    /\ token_count' = token_count + CountTokens(payloads[page])
    /\ llm_calls' = Append(llm_calls, LlmCall(Raised))
    /\ records' = [records EXCEPT !.Error = "Failed to process page via llm_processing"]
    /\ pc' = "pdf_returned"
    /\ UNCHANGED <<uploaded_path, payloads, page, jsons, context_json, mergeVars,
                   fault, response>>

\* `if output is None: continue`
IsSkipped(output) == output.kind = "none"

\* Variant: the tokens of a page are counted only once it has an output.
PageLlmReturns_Uncounted ==
    /\ pc = "loop"
    /\ page <= Len(payloads)
    /\ \E output \in LlmStrings \cup {NoneVal} :
         /\ llm_calls' = Append(llm_calls, LlmCall(output))
         /\ jsons' = IF IsSkipped(output) THEN jsons ELSE Append(jsons, output)
         /\ context_json' = IF IsSkipped(output) THEN context_json ELSE output
         /\ token_count' = IF IsSkipped(output) THEN token_count
                           ELSE token_count + CountTokens(payloads[page])
    /\ page' = page + 1
    /\ UNCHANGED <<pc, uploaded_path, payloads, records, mergeVars, fault, response>>

\* helper.llm_processing returns None or a string: lines 68-79 of one
\* iteration.
PageLlmReturns ==
    /\ pc = "loop"
    /\ page <= Len(payloads)
    /\ \E output \in LlmStrings \cup {NoneVal} :
         /\ llm_calls' = Append(llm_calls, LlmCall(output))
         /\ jsons' = IF IsSkipped(output) THEN jsons ELSE Append(jsons, output)
         /\ context_json' = IF IsSkipped(output) THEN context_json ELSE output
    /\ token_count' = token_count + CountTokens(payloads[page])
    /\ page' = page + 1
    /\ UNCHANGED <<pc, uploaded_path, payloads, records, mergeVars, fault, response>>

\* helper.combine_records raises.
MergeFault ==
    /\ pc = "loop"
    /\ page > Len(payloads)
    /\ CombineRecords(jsons).fault
    /\ json_strings' = jsons
    /\ combined_json' = CallOutcome(CombineRecords(jsons))
    /\ records' = [records EXCEPT !.Error = "Failed to combine records"]
    /\ pc' = "pdf_returned"
    /\ UNCHANGED <<uploaded_path, payloads, page, token_count, jsons, context_json,
                   llm_calls, fault, response>>

\* helper.combine_records returns; lines 88-91.
MergeOk ==
    /\ pc = "loop"
    /\ page > Len(payloads)
    /\ ~CombineRecords(jsons).fault
    /\ json_strings' = jsons
    /\ combined_json' = CallOutcome(CombineRecords(jsons))
    /\ records' = [records EXCEPT !.Records = CombineRecords(jsons).Records,
                                  !.TotalTokens = token_count + TOKEN_OVERHEAD]
    /\ pc' = "pdf_returned"
    /\ UNCHANGED <<uploaded_path, payloads, page, token_count, jsons, context_json,
                   llm_calls, fault, response>>

\* ------------------------------------------------------------------------
\* app.py: back in process_pdf_from_s3 and the envelope
\* ------------------------------------------------------------------------
\* An exception left process_pdf: `except Exception` raises RuntimeError.
S3CatchPdfFault ==
    /\ pc = "pdf_raised"
    /\ fault' = "Error processing PDF from S3: " \o fault
    /\ pc' = "s3_raised"
    /\ UNCHANGED <<uploaded_path, pdfVars, mergeVars, response>>

\* s3.upload_file raises.
S3UploadFault ==
    /\ pc = "pdf_returned"
    /\ fault' = "Error processing PDF from S3: upload failed"
    /\ pc' = "s3_raised"
    /\ UNCHANGED <<uploaded_path, pdfVars, mergeVars, response>>

\* The JSON is uploaded and final_payload returned.
S3UploadOk ==
    /\ pc = "pdf_returned"
    /\ pc' = "s3_returned"
    /\ UNCHANGED <<uploaded_path, pdfVars, mergeVars, fault, response>>

\* Variant: `and` in place of `or`.
IsFailedPayload_And(payload) == payload.Records = <<>> /\ payload.Error # ""

\* `if not payload["Records"] or payload["Error"]`
IsFailedPayload(payload) == payload.Records = <<>> \/ payload.Error # ""

\* Lines 128-137.
EnvelopeFromPayload ==
    /\ pc = "s3_returned"
    /\ response' =
         [processingStatus |-> IF IsFailedPayload(records) THEN "FAILED" ELSE "SUCCESS",
          message |-> IF IsFailedPayload(records) THEN records.Error ELSE "",
          hasParsed |-> TRUE,
          eobParsed |-> records]
    /\ pc' = "done"
    /\ UNCHANGED <<uploaded_path, pdfVars, mergeVars, fault>>

\* Lines 138-141.
EnvelopeFromFault ==
    /\ pc = "s3_raised"
    /\ response' = [response EXCEPT !.processingStatus = "FAILED", !.message = fault]
    /\ pc' = "done"
    /\ UNCHANGED <<uploaded_path, pdfVars, mergeVars, fault>>

Next ==
    \/ RunPipeline
    \/ S3InvalidPath
    \/ S3DownloadFault
    \/ S3DownloadOk
    \/ ProcessPdfInit
    \/ PresignFault
    \/ PresignOk
    \/ FetchFault
    \/ FetchOk
    \/ PageTokenFault
    \/ PageLlmFault
    \/ PageLlmReturns
    \/ MergeFault
    \/ MergeOk
    \/ S3CatchPdfFault
    \/ S3UploadFault
    \/ S3UploadOk
    \/ EnvelopeFromPayload
    \/ EnvelopeFromFault

Spec == Init /\ [][Next]_vars

\* ------------------------------------------------------------------------
\* combine_records on its own: every argument within the bounds
\* ------------------------------------------------------------------------
RecA3 == Rec(TRUE, <<"A", " ">>, ProcsAbsent, 2)
RecB2 == Rec(TRUE, <<"B">>, ProcsList(<<"p3">>), 2)
RecEmpty == Rec(TRUE, <<>>, ProcsList(<<"p1">>), 1)
RecNoClaim == Rec(FALSE, <<>>, ProcsList(<<"p2">>), 2)
MergeRecs == {RecA1, RecA2, RecA3, RecB, RecB2, RecBlank, RecEmpty, RecNoClaim}

\* The strings without records a caller can pass.
BareStrings == {EmptyStr, Malformed, NonObject, ObjNoRecords, Obj(<<>>)}

RECURSIVE NumRecords(_)
NumRecords(strings) ==
    IF strings = <<>> THEN 0
    ELSE Len(Head(strings).records) + NumRecords(Tail(strings))

InitMerge ==
    /\ pc = "args"
    /\ json_strings = <<>>
    /\ combined_json = NotCalled
    /\ uploaded_path = ""
    /\ payloads = <<>>
    /\ page = 0
    /\ token_count = 0
    /\ jsons = <<>>
    /\ context_json = EmptyStr
    /\ records = NoPayload
    /\ llm_calls = <<>>
    /\ fault = ""
    /\ response = NoResponse

\* The caller's list gets one more string.
ArgAddString ==
    /\ pc = "args"
    /\ Len(json_strings) < MaxBlobs
    /\ \E b \in BareStrings : json_strings' = Append(json_strings, b)
    /\ UNCHANGED <<pc, uploaded_path, pdfVars, combined_json, fault, response>>

\* The Records list of the caller's last string gets one more record.
ArgAddRecord ==
    /\ pc = "args"
    /\ json_strings # <<>>
    /\ json_strings[Len(json_strings)].kind = "object"
    /\ json_strings[Len(json_strings)].hasRecords
    /\ NumRecords(json_strings) < MaxRecs
    /\ \E r \in MergeRecs :
         json_strings' =
            [json_strings EXCEPT ![Len(json_strings)].records = Append(@, r)]
    /\ UNCHANGED <<pc, uploaded_path, pdfVars, combined_json, fault, response>>

\* combine_records(json_strings) raises.
CombineRaises ==
    /\ pc = "args"
    /\ CombineRecords(json_strings).fault
    /\ combined_json' = CallOutcome(CombineRecords(json_strings))
    /\ pc' = "combined"
    /\ UNCHANGED <<uploaded_path, pdfVars, json_strings, fault, response>>

\* combine_records(json_strings) returns.
CombineReturns ==
    /\ pc = "args"
    /\ ~CombineRecords(json_strings).fault
    /\ combined_json' = CallOutcome(CombineRecords(json_strings))
    /\ pc' = "combined"
    /\ UNCHANGED <<uploaded_path, pdfVars, json_strings, fault, response>>

NextMerge ==
    \/ ArgAddString
    \/ ArgAddRecord
    \/ CombineRaises
    \/ CombineReturns

SpecMerge == InitMerge /\ [][NextMerge]_vars

\* ------------------------------------------------------------------------
\* Properties of process_pdf
\* ------------------------------------------------------------------------
\* process_pdf has returned its result object to process_pdf_from_s3.
PdfReturned ==
    \/ pc \in {"pdf_returned", "s3_returned"}
    \/ pc \in {"s3_raised", "done"} /\ fault = "Error processing PDF from S3: upload failed"
    \/ pc = "done" /\ fault = ""

\* get_text_and_tables_from_url has returned (the loop was entered).
FetchReturned == page >= 1

\* An output that is a non-empty string.
IsNonEmptyOutput(o) == o.kind \notin {"fault", "none", "empty"}

Max(S) == CHOOSE x \in S : \A y \in S : y <= x
Min(S) == CHOOSE x \in S : \A y \in S : x <= y

\* The output of the most recent call before call k that was non-empty,
\* the empty string if there is none.
LastNonEmptyBefore(k) ==
    LET earlier == {j \in 1..(k - 1) : IsNonEmptyOutput(llm_calls[j].outcome)}
    IN  IF earlier = {} THEN EmptyStr ELSE llm_calls[Max(earlier)].outcome

\* The non-empty outputs of the calls so far, in page order.
RECURSIVE NonEmptyOutputs(_)
NonEmptyOutputs(calls) ==
    IF calls = <<>> THEN <<>>
    ELSE (IF IsNonEmptyOutput(Head(calls).outcome) THEN <<Head(calls).outcome>> ELSE <<>>)
            \o NonEmptyOutputs(Tail(calls))

\* C1: the context passed to llm_processing for a page is the verbatim
\* output of the most recent earlier page whose output was non-empty, or
\* the empty string if there is none; a page whose extraction returns null
\* or empty neither replaces the context nor is appended to the fragment
\* list (so the fragment list holds exactly the non-empty outputs).
C1_ContextIsLastNonEmptyOutput ==
    /\ \A k \in DOMAIN llm_calls : llm_calls[k].context = LastNonEmptyBefore(k)
    /\ context_json = LastNonEmptyBefore(Len(llm_calls) + 1)
    /\ jsons = NonEmptyOutputs(llm_calls)

\* C2: when the Document-Text Extractor returns an empty sequence of pages,
\* the result process_pdf returns has a non-empty Error.
C2_EmptyPagesFail ==
    (PdfReturned /\ FetchReturned /\ payloads = <<>>) => records.Error # ""

\* C3: a fault of llm_processing on page k ends process_pdf at once with a
\* non-empty Error and Records == []: the faulting call is the last call,
\* combine_records is never called, and every page is passed to
\* llm_processing at most once, in page order (nothing is retried).
C3_FailFast ==
    \A k \in DOMAIN llm_calls :
        /\ llm_calls[k].page = k
        /\ llm_calls[k].outcome.kind = "fault" =>
              /\ k = Len(llm_calls)
              /\ PdfReturned
              /\ records.Error # ""
              /\ records.Records = <<>>
              /\ ~combined_json.called

\* Page 2 of a 3-page document faulted and process_pdf has returned.
C3_Witness ==
    /\ pc = "pdf_returned"
    /\ Len(payloads) = 3
    /\ Len(llm_calls) = 2
    /\ llm_calls[2].outcome.kind = "fault"
    /\ llm_calls[1].outcome.kind = "object"

RECURSIVE SumTokens(_)
SumTokens(texts) ==
    IF texts = <<>> THEN 0 ELSE CountTokens(Head(texts)) + SumTokens(Tail(texts))

\* Every page went through the loop and no call of it raised.
AllPagesProcessed ==
    /\ PdfReturned
    /\ FetchReturned
    /\ Len(llm_calls) = Len(payloads)
    /\ \A k \in DOMAIN llm_calls : llm_calls[k].outcome.kind # "fault"

\* C4 as stated: when every page is processed without failure, TotalTokens
\* is the sum of count_tokens over all page payloads plus 4000 and Error is
\* the empty string.
C4_TokensWhenPagesSucceed ==
    AllPagesProcessed =>
        /\ records.TotalTokens = SumTokens(payloads) + TOKEN_OVERHEAD
        /\ records.Error = ""

\* C4 amended: when every page is processed without failure and
\* combine_records does not raise, TotalTokens is the sum of count_tokens
\* over all page payloads (pages without output included) plus 4000 and
\* Error is the empty string.
C4_TokensWhenRunSucceeds ==
    (AllPagesProcessed /\ combined_json.called /\ ~combined_json.fault) =>
        /\ records.TotalTokens = SumTokens(payloads) + TOKEN_OVERHEAD
        /\ records.Error = ""

\* A 3-page run with pages of different sizes, one of them without output,
\* that returned its totals.
C4_Witness ==
    /\ pc = "pdf_returned"
    /\ AllPagesProcessed
    /\ combined_json.called /\ ~combined_json.fault
    /\ Len(payloads) = 3
    /\ CountTokens(payloads[1]) # CountTokens(payloads[3])
    /\ llm_calls[2].outcome.kind = "none"
    /\ llm_calls[3].outcome.kind = "object"
    /\ records.TotalTokens > TOKEN_OVERHEAD

\* C9: whichever collaborator call of process_pdf faults, process_pdf
\* returns a result with a non-empty Error; no exception leaves it.
C9_NoFaultLeavesProcessPdf ==
    /\ pc # "pdf_raised"
    /\ (PdfReturned /\ ~(combined_json.called /\ ~combined_json.fault)) => records.Error # ""

\* ------------------------------------------------------------------------
\* Properties of combine_records
\* ------------------------------------------------------------------------
\* combine_records was called and returned.
CombineReturned == combined_json.called /\ ~combined_json.fault

\* The records of the input, fragment by fragment, in record order: the
\* Records lists of the strings that are JSON objects.
RECURSIVE InputRecords(_)
InputRecords(strings) ==
    IF strings = <<>> THEN <<>>
    ELSE (IF Head(strings).kind = "object" /\ Head(strings).hasRecords
          THEN Head(strings).records ELSE <<>>)
            \o InputRecords(Tail(strings))

\* The claim identifier of a record with the surrounding blanks removed,
\* <<>> when the record has none.
TrimmedId(record) ==
    LET v == record.claimNum
        solid == {i \in DOMAIN v : v[i] # " "}
    IN  IF ~record.hasClaim \/ solid = {} THEN <<>>
        ELSE SubSeq(v, Min(solid), Max(solid))

\* The list a Procs entry stands for.
ProcsItems(record) == IF record.procs.kind = "list" THEN record.procs.items ELSE <<>>

\* The Procs lists of the records that carry identifier id, concatenated
\* in the order of the records.
RECURSIVE ConcatProcs(_, _)
ConcatProcs(recs, id) ==
    IF recs = <<>> THEN <<>>
    ELSE (IF TrimmedId(Head(recs)) = id THEN ProcsItems(Head(recs)) ELSE <<>>)
            \o ConcatProcs(Tail(recs), id)

\* The distinct non-empty identifiers of the records, by first appearance.
RECURSIVE FirstSeenIds(_, _)
FirstSeenIds(recs, seen) ==
    IF recs = <<>> THEN <<>>
    ELSE LET id == TrimmedId(Head(recs)) IN
         IF id = <<>> \/ id \in seen THEN FirstSeenIds(Tail(recs), seen)
         ELSE <<id>> \o FirstSeenIds(Tail(recs), seen \cup {id})

OutputIds == [i \in DOMAIN combined_json.Records |-> TrimmedId(combined_json.Records[i])]

\* C5: for every claim identifier of the input, the Procs list of its
\* merged record is the concatenation, in fragment order and then in record
\* order within a fragment, of the Procs lists of all input records that
\* carry the identifier.
C5_ProcsConcatenated ==
    CombineReturned =>
        /\ \A n \in DOMAIN InputRecords(json_strings) :
              LET id == TrimmedId(InputRecords(json_strings)[n]) IN
              id # <<>> =>
                 \E i \in DOMAIN combined_json.Records :
                     /\ OutputIds[i] = id
                     /\ ProcsItems(combined_json.Records[i])
                           = ConcatProcs(InputRecords(json_strings), id)
        /\ \A i \in DOMAIN combined_json.Records :
              ProcsItems(combined_json.Records[i])
                 = ConcatProcs(InputRecords(json_strings), OutputIds[i])

\* Two fragments carry claim "A" with Procs [p1] and [p2]; the merged
\* record has [p1, p2].
C5_Witness ==
    /\ CombineReturned
    /\ Len(json_strings) = 2
    /\ json_strings[1] = Obj(<<RecA1>>)
    /\ json_strings[2] = Obj(<<RecB, RecA2>>)
    /\ Len(combined_json.Records) = 2
    /\ ProcsItems(combined_json.Records[1]) = <<"p1", "p2">>

\* C6: the Records list holds exactly one record per distinct non-empty
\* trimmed claim identifier of the input, none twice, ordered by first
\* appearance; N distinct identifiers give N records.
C6_OneRecordPerId ==
    CombineReturned =>
        /\ OutputIds = FirstSeenIds(InputRecords(json_strings), {})
        /\ \A i, j \in DOMAIN OutputIds : OutputIds[i] = OutputIds[j] => i = j
        /\ Len(combined_json.Records)
              = Cardinality({TrimmedId(InputRecords(json_strings)[n]) :
                                n \in DOMAIN InputRecords(json_strings)} \ {<<>>})

\* Claim "B" is seen first, claim "A" twice with different spellings: two
\* records, "B" before "A".
C6_Witness ==
    /\ CombineReturned
    /\ InputRecords(json_strings) = <<RecB, RecA2, RecA3>>
    /\ OutputIds = << <<"B">>, <<"A">> >>

\* The input without the record at place k of string b.
RemoveRecord(strings, b, k) ==
    [strings EXCEPT ![b].records =
        SubSeq(@, 1, k - 1) \o SubSeq(@, k + 1, Len(@))]

\* The places <<b, k>> of the input holding a record without identifier.
BlankPlaces(strings) ==
    UNION {{<<b, k>> : k \in {k \in DOMAIN strings[b].records :
                                 TrimmedId(strings[b].records[k]) = <<>>}} :
             b \in {b \in DOMAIN strings :
                       strings[b].kind = "object" /\ strings[b].hasRecords}}

\* C7: a record whose claim identifier is absent, empty or whitespace-only
\* never appears in the merged output, and removing it from the input
\* leaves the merged output unchanged.
C7_BlankRecordsDropped ==
    CombineReturned =>
        /\ \A i \in DOMAIN OutputIds : OutputIds[i] # <<>>
        /\ \A p \in BlankPlaces(json_strings) :
              /\ \A i \in DOMAIN combined_json.Records :
                    combined_json.Records[i] # json_strings[p[1]].records[p[2]]
              /\ CallOutcome(CombineRecords(RemoveRecord(json_strings, p[1], p[2])))
                    = combined_json

\* A whitespace-only record stands between two records of claim "A".
C7_Witness ==
    /\ CombineReturned
    /\ InputRecords(json_strings) = <<RecA1, RecBlank, RecA2>>
    /\ Len(combined_json.Records) = 1
    /\ BlankPlaces(json_strings) # {}

\* The list without its element at place i.
RemoveAt(strings, i) == SubSeq(strings, 1, i - 1) \o SubSeq(strings, i + 1, Len(strings))

\* C8: a fragment that is not parseable as JSON, at any place of the list
\* process_pdf hands to combine_records, is skipped: the merged output is
\* the output for the list without that fragment, and when nothing else
\* makes the merge raise, process_pdf returns that output with Error empty.
C8_MalformedSkipped ==
    (PdfReturned /\ combined_json.called) =>
        /\ json_strings = jsons
        /\ \A i \in DOMAIN json_strings :
              json_strings[i].kind = "malformed" =>
                 CallOutcome(CombineRecords(RemoveAt(json_strings, i))) = combined_json
        /\ (\A i \in DOMAIN json_strings : json_strings[i].kind # "nonobject") =>
              /\ records.Error = ""
              /\ records.Records = combined_json.Records

\* A malformed fragment stands between two parseable ones and the run
\* returned the record merged from both.
C8_Witness ==
    /\ pc = "pdf_returned"
    /\ jsons = <<Obj(<<RecA1>>), Malformed, Obj(<<RecBlank, RecA2>>)>>
    /\ records.Error = ""
    /\ Len(records.Records) = 1
    /\ ProcsItems(records.Records[1]) = <<"p1", "p2">>

\* ------------------------------------------------------------------------
\* Properties of the event envelope
\* ------------------------------------------------------------------------
\* C10: processingStatus is SUCCESS exactly when the pipeline delivered a
\* result with non-empty Records and empty Error; in every other outcome
\* it is FAILED and message is the result's Error, or the description of
\* the fault when the pipeline raised.
C10_StatusFromResult ==
    pc = "done" =>
        /\ response.processingStatus \in {"SUCCESS", "FAILED"}
        /\ response.processingStatus = "SUCCESS"
              <=> (fault = "" /\ records.Records # <<>> /\ records.Error = "")
        /\ response.processingStatus = "FAILED" =>
              /\ fault = "" => response.message = records.Error
              /\ fault # "" => response.message = fault
        /\ response.processingStatus = "SUCCESS" => response.message = ""

\* A run that ended SUCCESS with a merged record.
C10_Witness ==
    /\ pc = "done"
    /\ response.processingStatus = "SUCCESS"
    /\ Len(records.Records) = 2
    /\ records.TotalTokens > TOKEN_OVERHEAD

\* ------------------------------------------------------------------------
\* First occurrence and partial results
\* ------------------------------------------------------------------------
\* The first record of the list that carries identifier id.
FirstWithId(recs, id) ==
    recs[Min({n \in DOMAIN recs : TrimmedId(recs[n]) = id})]

\* The fields of a record other than Procs.
OtherFields(record) ==
    [hasClaim |-> record.hasClaim, claimNum |-> record.claimNum, fld |-> record.fld]

\* C11: the first occurrence of a claim identifier wins: every field other
\* than Procs of a merged record is the field of the first input record
\* with that identifier, whatever later records with the identifier carry.
C11_FirstOccurrenceWins ==
    CombineReturned =>
        \A i \in DOMAIN combined_json.Records :
            /\ \E n \in DOMAIN InputRecords(json_strings) :
                  TrimmedId(InputRecords(json_strings)[n]) = OutputIds[i]
            /\ OtherFields(combined_json.Records[i])
                  = OtherFields(FirstWithId(InputRecords(json_strings), OutputIds[i]))

\* Claim "A" comes twice with different scalar fields and spellings; the
\* merged record has those of the first and the Procs of both.
C11_Witness ==
    /\ CombineReturned
    /\ json_strings = <<Obj(<<RecA1>>), Obj(<<RecA2>>)>>
    /\ Len(combined_json.Records) = 1
    /\ combined_json.Records[1].fld = RecA1.fld
    /\ combined_json.Records[1].fld # RecA2.fld
    /\ ProcsItems(combined_json.Records[1]) = <<"p1", "p2">>

\* C12: every result process_pdf returns with a non-empty Error has
\* Records == [] and TotalTokens == 0, whichever step failed; what was
\* gathered before the failure is not in it.
C12_NoPartialResult ==
    (PdfReturned /\ records.Error # "") =>
        /\ records.Records = <<>>
        /\ records.TotalTokens = 0

\* Page 3 faulted after two pages had given fragments and tokens.
C12_Witness ==
    /\ pc = "pdf_returned"
    /\ records.Error # ""
    /\ Len(llm_calls) = 3
    /\ llm_calls[3].outcome.kind = "fault"
    /\ Len(jsons) = 2
    /\ CombineRecords(jsons).Records # <<>>
    /\ token_count > 0

====
